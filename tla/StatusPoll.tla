----------------------------- MODULE StatusPoll -----------------------------
(***************************************************************************)
(* The client of one upload: it is told a position in the 202 reply and    *)
(* then polls GET /queue/{jobId}, QueueHandler.Position of                 *)
(* internal/api/handlers/queue.go.  The handler reads the snapshot and the *)
(* position in two steps, and the queue moves in between.                  *)
(***************************************************************************)
EXTENDS JobQueue

CONSTANT NoPoll    \* no status request is being handled

VARIABLES
  poll,   \* the status request being handled: the job and the status it read
  told    \* what the client of each job was told last

pollVars == <<queueVars, poll, told>>

Reply == [status : Status \cup {"unsent", "notFound"}, position : Nat]

PollTypeOK ==
  /\ TypeOK
  /\ poll \in [job : JobID, status : Status] \cup {NoPoll}
  /\ told \in [JobID -> Reply]

PollInit ==
  /\ QueueInit
  /\ poll = NoPoll
  /\ told = [j \in JobID |-> [status |-> "unsent", position |-> 0]]

MutantAcceptedPosition == Len(queueOrder) - 1

(* len(q.queueOrder) after the send, mu still held.                        *)
AcceptedPosition == Len(queueOrder)

(* Submit returns and the upload handler answers 202 with the position.    *)
AnswerAccepted ==
  /\ SubmitSend
  /\ told' = [told EXCEPT ![submitting] = [status |-> "queued", position |-> AcceptedPosition]]
  /\ UNCHANGED poll

(* GetJob, for a client that knows its job id.                             *)
PollGetJob(j) ==
  /\ poll = NoPoll
  /\ told[j].status # "unsent"
  /\ \/ /\ jobs[j] # "absent"
        /\ poll' = [job |-> j, status |-> jobs[j]]
        /\ UNCHANGED told
     \/ /\ jobs[j] = "absent"
        /\ told' = [told EXCEPT ![j] = [status |-> "notFound", position |-> 0]]
        /\ UNCHANGED poll
  /\ UNCHANGED queueVars

(* GetPosition takes mu; then the handler answers 200.                     *)
PollGetPosition ==
  /\ poll # NoPoll
  /\ MuFree
  /\ told' = [told EXCEPT ![poll.job] =
                [status |-> poll.status, position |-> Position(poll.job)]]
  /\ poll' = NoPoll
  /\ UNCHANGED queueVars

QueueMoves ==
  \/ \E j \in JobID : SubmitAdmit(j) \/ DeleteJobEntry(j) \/ DeleteJobOrder(j)
  \/ WorkerStep

PollNext ==
  \/ QueueMoves /\ UNCHANGED <<poll, told>>
  \/ AnswerAccepted
  \/ \E j \in JobID : PollGetJob(j)
  \/ PollGetPosition

PollSpec == PollInit /\ [][PollNext]_pollVars

-----------------------------------------------------------------------------
(* A reply with a position speaks of a queued job: removeFromOrder comes   *)
(* before the processing snapshot, and the handler reads the snapshot      *)
(* first.  (The converse fails: a client can be told "queued" and 0.)      *)
PositionOnlyWhileQueued ==
  \A j \in JobID : told[j].position > 0 => told[j].status = "queued"

Stage(status) ==
  CASE status = "unsent"     -> 0
    [] status = "queued"     -> 1
    [] status = "processing" -> 2
    [] status \in Terminal   -> 3
    [] status = "notFound"   -> 4

(* Reply after reply, the client sees its job move on: the status never    *)
(* steps back and the position, that of the 202 included, never grows.     *)
RepliesNeverRegress ==
  [][\A j \in JobID :
       told[j].status # "unsent" =>
         /\ Stage(told'[j].status) >= Stage(told[j].status)
         /\ told'[j].position <= told[j].position]_told
=============================================================================
