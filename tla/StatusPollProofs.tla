--------------------------- MODULE StatusPollProofs ---------------------------
(***************************************************************************)
(* Proofs about StatusPoll: what the clients are told, for every queue     *)
(* size, every set of jobs and of clients.                                 *)
(***************************************************************************)
EXTENDS StatusPoll, JobQueueProofs

-----------------------------------------------------------------------------
(* Stages                                                                  *)

LEMMA StageValues ==
  /\ Stage("unsent") = 0 /\ Stage("queued") = 1 /\ Stage("processing") = 2
  /\ Stage("done") = 3 /\ Stage("error") = 3 /\ Stage("notFound") = 4
BY DEF Stage, Terminal

(* The stage of a submitted job as it is, whatever a client knows of it.   *)
Shown(j) == IF jobs[j] = "absent" THEN "notFound" ELSE jobs[j]
Now(j) == Stage(Shown(j))

LEMMA NowValues ==
  ASSUME TypeOK, NEW j \in JobID
  PROVE  Now(j) \in 1..4 /\ (jobs[j] = "queued" <=> Now(j) = 1)
<1>1. \/ jobs[j] = "absent" \/ jobs[j] = "queued" \/ jobs[j] = "processing"
      \/ jobs[j] = "done" \/ jobs[j] = "error"
  BY DEF TypeOK, Status, Terminal
<1>. QED BY <1>1, StageValues DEF Now, Shown

-----------------------------------------------------------------------------
(* What one step of the queue does to a submitted job                      *)

LEMMA StepOfPolledQueue == [PollNext]_pollVars => [QueueNext]_queueVars
BY DEF PollNext, pollVars, QueueMoves, QueueNext, AnswerAccepted, PollGetJob, PollGetPosition

LEMMA QueueInvKept == QueueInv /\ [PollNext]_pollVars => QueueInv'
BY StepOfPolledQueue, QueueInvStep

(* A submitted job moves on or stays where it is.                          *)
LEMMA StageGrows ==
  ASSUME QueueInv, [QueueNext]_queueVars, NEW j \in JobID, j \in issued
  PROVE  j \in issued' /\ Now(j)' >= Now(j)
<1>0. TypeOK /\ NoJobStranded /\ TypeOK'
  BY QueueInvStep DEF QueueInv
<1>1. Now(j) \in 1..4 /\ Now(j)' \in 1..4
  <2>1. jobs'[j] \in Status \cup {"absent"}
    BY <1>0 DEF TypeOK
  <2>. QED BY <1>0, <2>1, NowValues, StageValues DEF Now, Shown, Status, Terminal
<1>2. ASSUME NEW k \in JobID, SubmitAdmit(k) PROVE j \in issued' /\ jobs'[j] = jobs[j]
  BY <1>0, <1>2 DEF SubmitAdmit, TypeOK
<1>3. CASE WorkerPublish
  <2>1. CASE current = j
    <3>1. jobs[j] = "queued" /\ jobs'[j] = "processing" /\ issued' = issued
      BY <1>0, <1>3, <2>1 DEF WorkerPublish, TypeOK, NoJobStranded
    <3>. QED BY <3>1, StageValues DEF Now, Shown
  <2>2. CASE current # j
    <3>1. jobs'[j] = jobs[j] /\ issued' = issued
      BY <1>0, <1>3, <2>2 DEF WorkerPublish, TypeOK
    <3>. QED BY <1>1, <3>1 DEF Now, Shown
  <2>. QED BY <2>1, <2>2
<1>4. ASSUME NEW result \in Result, WorkerStore(result) PROVE j \in issued' /\ Now(j)' >= Now(j)
  <2>1. CASE current = j
    <3>1. jobs[j] = "processing" /\ jobs'[j] \in {"done", "error"} /\ issued' = issued
      BY <1>0, <1>4, <2>1 DEF WorkerStore, TypeOK, NoJobStranded, FinalStatus
    <3>. QED BY <3>1, StageValues DEF Now, Shown
  <2>2. CASE current # j
    <3>1. jobs'[j] = jobs[j] /\ issued' = issued
      BY <1>0, <1>4, <2>2 DEF WorkerStore, TypeOK
    <3>. QED BY <1>1, <3>1 DEF Now, Shown
  <2>. QED BY <2>1, <2>2
<1>5. ASSUME NEW k \in JobID, DeleteJobEntry(k)
      PROVE  j \in issued' /\ jobs'[j] \in {jobs[j], "absent"}
  BY <1>0, <1>5 DEF DeleteJobEntry, TypeOK
<1>6. ASSUME \/ SubmitSend \/ WorkerReceive \/ WorkerExit \/ WorkerDequeue
             \/ WorkerRelease \/ Cancel \/ Stopped \/ UNCHANGED queueVars
             \/ \E k \in JobID : DeleteJobOrder(k)
      PROVE  issued' = issued /\ jobs' = jobs
  BY <1>6 DEF SubmitSend, WorkerReceive, WorkerExit, WorkerDequeue, WorkerRelease,
              Cancel, Stopped, DeleteJobOrder, queueVars
<1>7. ASSUME jobs'[j] \in {jobs[j], "absent"} PROVE Now(j)' >= Now(j)
  BY <1>1, <1>7, StageValues DEF Now, Shown
<1>. QED BY <1>2, <1>3, <1>4, <1>5, <1>6, <1>7 DEF QueueNext, WorkerStep

(* The position of a submitted job only falls, to 0 when it leaves.        *)
LEMMA PositionFalls ==
  ASSUME QueueInv, [QueueNext]_queueVars, NEW j \in JobID, j \in issued
  PROVE  Position(j)' <= Position(j)
<1>1. CASE Position(j) > 0
  BY <1>1, PositionStep
<1>2. CASE ~(Position(j) > 0)
  <2>1. queueOrder \in Seq(JobID) /\ queueOrder' \in Seq(JobID) /\ Distinct(queueOrder)
    BY QueueInvStep DEF QueueInv, TypeOK, Placement
  <2>2. /\ Position(j) = PositionIn(queueOrder, j)
        /\ Position(j)' = PositionIn(queueOrder', j)
    BY DEF Position, SelectInSeq, PositionIn
  <2>3. j \notin ToSet(queueOrder)
    BY <1>2, <2>1, <2>2, PositionInList DEF ToSet
  <2>4. j \notin ToSet(queueOrder')
    <3>1. ASSUME NEW k \in JobID, SubmitAdmit(k) PROVE j \notin ToSet(queueOrder')
      <4>1. queueOrder' = Append(queueOrder, k) /\ k # j
        BY <3>1 DEF SubmitAdmit
      <4>. QED BY <2>1, <2>3, <4>1, AppendElements
    <3>2. CASE queueOrder' = queueOrder
      BY <2>3, <3>2
    <3>3. CASE queueOrder # <<>> /\ queueOrder' = Tail(queueOrder)
      BY <2>1, <2>3, <3>3, TailElements
    <3>4. \/ \E k \in JobID : SubmitAdmit(k)
          \/ queueOrder' = queueOrder
          \/ queueOrder # <<>> /\ queueOrder' = Tail(queueOrder)
      BY OrderOrSubmit
    <3>. QED BY <3>1, <3>2, <3>3, <3>4
  <2>5. Position(j) = 0 /\ Position(j)' = 0
    BY <2>1, <2>2, <2>3, <2>4, PositionInList
  <2>. QED BY <2>5
<1>. QED BY <1>1, <1>2

-----------------------------------------------------------------------------
(* The inductive invariant                                                 *)

(* A client has been told no more than is true: its job was submitted and  *)
(* sent, is at least at the stage of the last reply, and has no place      *)
(* behind the one of the last reply.  The status a handler has read lies   *)
(* between the last reply and what is true.                                *)
Told(j) == told[j].status # "unsent"

Behind ==
  \A j \in JobID : Told(j) =>
    /\ j \in issued
    /\ j # submitting
    /\ Stage(told[j].status) <= Now(j)
    /\ Position(j) <= told[j].position

Between ==
  poll # NoPoll =>
    /\ Told(poll.job)
    /\ Stage(told[poll.job].status) <= Stage(poll.status)
    /\ Stage(poll.status) <= Now(poll.job)

PollInv ==
  /\ QueueInv
  /\ PollTypeOK
  /\ Behind
  /\ Between
  /\ PositionOnlyWhileQueued

(* A position is a natural number, within the order, and that of a queued  *)
(* job.                                                                    *)
LEMMA PositionIsNat ==
  ASSUME QueueInv, QueueInv', NEW j \in JobID
  PROVE  Position(j) \in Nat /\ Position(j)' \in Nat
<1>1. /\ queueOrder \in Seq(JobID) /\ Distinct(queueOrder)
      /\ queueOrder' \in Seq(JobID) /\ Distinct(queueOrder')
  BY DEF QueueInv, TypeOK, Placement
<1>2. /\ Position(j) = PositionIn(queueOrder, j)
      /\ Position(j)' = PositionIn(queueOrder', j)
  BY DEF Position, SelectInSeq, PositionIn
<1>. QED BY <1>1, <1>2, PositionInList

LEMMA PositionMeans ==
  ASSUME QueueInv, NEW j \in JobID
  PROVE  /\ Position(j) \in Nat
         /\ Position(j) <= Len(queueOrder)
         /\ Position(j) > 0 => jobs[j] = "queued"
<1>1. queueOrder \in Seq(JobID) /\ Distinct(queueOrder) /\ Len(queueOrder) \in Nat
  BY DEF QueueInv, TypeOK, Placement
<1>2. Position(j) = PositionIn(queueOrder, j)
  BY DEF Position, SelectInSeq, PositionIn
<1>3. CASE j \in ToSet(queueOrder)
  <2>1. PICK n \in 1..Len(queueOrder) : queueOrder[n] = j
    BY <1>1, <1>3 DEF ToSet
  <2>2. Position(j) = n
    BY <1>1, <1>2, <2>1, PositionInList
  <2>. QED BY <1>1, <1>3, <2>2 DEF QueueInv, NoJobStranded
<1>4. CASE j \notin ToSet(queueOrder)
  <2>1. Position(j) = 0
    BY <1>1, <1>2, <1>4, PositionInList
  <2>. QED BY <1>1, <2>1
<1>. QED BY <1>3, <1>4

(* A job being submitted has its place in the order already.               *)
LEMMA SubmittingIsQueued ==
  ASSUME QueueInv, submitting # NoJob
  PROVE  submitting \in JobID /\ jobs[submitting] = "queued"
<1>1. submitting \in JobID /\ InHand \in Seq(JobID) /\ jobChan \in Seq(JobID)
  BY DEF QueueInv, TypeOK, Placement, WorkerBusy, InHand
<1>2. queueOrder = (InHand \o jobChan) \o <<submitting>>
  BY DEF QueueInv, OrderMatchesChannel, BeingSent
<1> DEFINE s == InHand \o jobChan
<1>3. s \in Seq(JobID) /\ queueOrder = Append(s, submitting)
  BY <1>1, <1>2
<1> HIDE DEF s
<1>4. submitting \in ToSet(queueOrder)
  BY <1>1, <1>3, AppendElements
<1>. QED BY <1>1, <1>4 DEF QueueInv, NoJobStranded

LEMMA PollInvInit == PollInit => PollInv
<1> SUFFICES ASSUME PollInit PROVE PollInv
  OBVIOUS
<1>1. QueueInv
  BY QueueInvInit DEF PollInit
<1>2. \A j \in JobID : told[j] = [status |-> "unsent", position |-> 0]
  BY DEF PollInit
<1>3. PollTypeOK
  BY <1>1 DEF PollInit, PollTypeOK, Reply, QueueInv
<1>4. Behind /\ Between /\ PositionOnlyWhileQueued
  BY <1>2 DEF PollInit, Behind, Between, Told, PositionOnlyWhileQueued
<1>. QED BY <1>1, <1>3, <1>4 DEF PollInv

(* While nothing is told and nothing is read, the truth moves on and the   *)
(* clients stay behind it.                                                 *)
LEMMA QueueMoveKeeps ==
  ASSUME PollInv, [QueueNext]_queueVars, UNCHANGED <<poll, told>>,
         \A j \in JobID : j \in issued /\ j # submitting => j # submitting'
  PROVE  PollInv'
<1>0. QueueInv /\ QueueInv' /\ TypeOK' /\ PollTypeOK /\ Behind /\ Between
  BY QueueInvStep DEF PollInv, QueueInv
<1>1. PollTypeOK' /\ PositionOnlyWhileQueued'
  BY <1>0 DEF PollInv, PollTypeOK, PositionOnlyWhileQueued
<1>2. ASSUME NEW j \in JobID, Told(j)
      PROVE  /\ j \in issued' /\ Now(j)' >= Now(j) /\ Now(j) \in Nat /\ Now(j)' \in Nat
             /\ Position(j)' <= Position(j) /\ Position(j) \in Nat /\ Position(j)' \in Nat
             /\ j # submitting'
             /\ Stage(told[j].status) \in Nat /\ told[j].position \in Nat
  <2>1. j \in issued /\ j # submitting
    BY <1>0, <1>2 DEF Behind
  <2>2. Now(j) \in Nat /\ Now(j)' \in Nat
    <3>1. Now(j) \in Nat
      BY <1>0, NowValues DEF QueueInv
    <3>2. jobs'[j] \in Status \cup {"absent"}
      BY <1>0 DEF TypeOK
    <3>. QED BY <3>1, <3>2, StageValues DEF Now, Shown, Status, Terminal
  <2>3. Position(j) \in Nat /\ Position(j)' \in Nat
    BY <1>0, PositionIsNat
  <2>4. Stage(told[j].status) \in Nat /\ told[j].position \in Nat
    BY <1>0, StageValues DEF PollTypeOK, Reply, Status, Terminal
  <2>. QED BY <1>0, <2>1, <2>2, <2>3, <2>4, StageGrows, PositionFalls
<1>3. Behind'
  <2> SUFFICES ASSUME NEW j \in JobID, Told(j)'
               PROVE  /\ j \in issued' /\ j # submitting'
                      /\ Stage(told'[j].status) <= Now(j)'
                      /\ Position(j)' <= told'[j].position
    BY DEF Behind
  <2>1. Told(j) /\ told'[j] = told[j]
    BY DEF Told
  <2>2. Stage(told[j].status) <= Now(j) /\ Position(j) <= told[j].position
    BY <1>0, <2>1 DEF Behind
  <2>. QED BY <1>2, <2>1, <2>2
<1>4. Between'
  <2>0. SUFFICES ASSUME poll' # NoPoll
                 PROVE  /\ Told(poll.job)'
                        /\ Stage(told'[poll'.job].status) <= Stage(poll'.status)
                        /\ Stage(poll'.status) <= Now(poll.job)'
    BY DEF Between
  <2>1. /\ poll.job \in JobID /\ Told(poll.job)
        /\ Stage(told[poll.job].status) <= Stage(poll.status)
        /\ Stage(poll.status) <= Now(poll.job) /\ Stage(poll.status) \in Nat
    <3>1. poll # NoPoll
      BY <2>0
    <3>2. poll.job \in JobID /\ poll.status \in Status
      BY <1>0, <3>1 DEF PollTypeOK
    <3>3. Stage(poll.status) \in Nat
      BY <3>2, StageValues DEF Status, Terminal
    <3>. QED BY <1>0, <3>1, <3>2, <3>3 DEF Between
  <2>2. PICK j \in JobID : j = poll.job
    BY <2>1
  <2>3. Stage(poll.status) <= Now(j)'
    BY <1>2, <2>1, <2>2
  <2>. QED BY <2>1, <2>2, <2>3 DEF Told, Now, Shown
<1>. QED BY <1>0, <1>1, <1>3, <1>4 DEF PollInv

(* The truth about a job is in jobs and in the order alone.                *)
LEMMA TruthUnchanged ==
  ASSUME UNCHANGED <<jobs, queueOrder>>
  PROVE  \A j \in JobID : Now(j)' = Now(j) /\ Position(j)' = Position(j)
<1> SUFFICES ASSUME NEW j \in JobID PROVE Now(j)' = Now(j) /\ Position(j)' = Position(j)
  OBVIOUS
<1>1. Now(j)' = Now(j)
  BY DEF Now, Shown
<1>2. /\ Position(j) = PositionIn(queueOrder, j)
      /\ Position(j)' = PositionIn(queueOrder', j)
  BY DEF Position, SelectInSeq, PositionIn
<1>. QED BY <1>1, <1>2

(* The 202 reply: the job has just been sent, the mutex is still held.     *)
LEMMA AnswerKeeps ==
  ASSUME PollInv, AnswerAccepted
  PROVE  /\ PollInv'
         /\ \A j \in JobID : Told(j) => told'[j] = told[j]
<1>0. /\ QueueInv /\ TypeOK /\ PollTypeOK /\ Behind /\ Between /\ PositionOnlyWhileQueued
      /\ SubmitSend /\ UNCHANGED poll
      /\ told' = [told EXCEPT ![submitting] =
                     [status |-> "queued", position |-> Len(queueOrder)]]
  BY DEF PollInv, QueueInv, AnswerAccepted, AcceptedPosition
<1>1. QueueInv' /\ TypeOK'
  BY <1>0, SubmitSendPreserves DEF QueueInv
<1>2. /\ submitting \in JobID /\ submitting' = NoJob
      /\ UNCHANGED <<jobs, queueOrder, issued>>
  BY <1>0 DEF SubmitSend, TypeOK
<1>3. Len(queueOrder) \in Nat
  BY <1>0 DEF TypeOK
<1>4. /\ told'[submitting] = [status |-> "queued", position |-> Len(queueOrder)]
      /\ \A j \in JobID : j # submitting => told'[j] = told[j]
  BY <1>0, <1>2 DEF PollTypeOK
<1>5. ~Told(submitting)
  BY <1>0, <1>2 DEF Behind
<1>6. PollTypeOK'
  <2>1. told'[submitting] \in Reply
    BY <1>3, <1>4 DEF Reply, Status
  <2>. QED BY <1>0, <1>1, <2>1, <1>2, <1>4 DEF PollTypeOK
<1>7. PositionOnlyWhileQueued'
  BY <1>0, <1>4 DEF PositionOnlyWhileQueued
<1>8. \A j \in JobID : Now(j)' = Now(j) /\ Position(j)' = Position(j)
  BY <1>2, TruthUnchanged
<1>9. Behind'
  <2> SUFFICES ASSUME NEW j \in JobID, told'[j].status # "unsent"
               PROVE  /\ j \in issued' /\ j # submitting'
                      /\ Stage(told'[j].status) <= Now(j)'
                      /\ Position(j)' <= told'[j].position
    BY DEF Behind, Told
  <2>1. CASE j = submitting
    <3>1. jobs[j] = "queued"
      BY <1>0, <1>2, <2>1, SubmittingIsQueued, QueueAssumption
    <3>2. j \in issued
      BY <1>0, <3>1 DEF QueueInv, Placement
    <3>3. Now(j) = 1
      BY <1>0, <3>1, NowValues
    <3>4. Position(j) <= Len(queueOrder)
      BY <1>0, PositionMeans
    <3>. QED BY <1>2, <1>4, <1>8, <2>1, <3>2, <3>3, <3>4, StageValues, QueueAssumption
  <2>2. CASE j # submitting
    <3>1. Told(j) /\ told'[j] = told[j]
      BY <1>4, <2>2 DEF Told
    <3>. QED BY <1>0, <1>2, <1>8, <3>1, QueueAssumption DEF Behind
  <2>. QED BY <2>1, <2>2
<1>10. Between'
  <2> SUFFICES ASSUME poll' # NoPoll
               PROVE  /\ Told(poll.job)'
                      /\ Stage(told'[poll'.job].status) <= Stage(poll'.status)
                      /\ Stage(poll'.status) <= Now(poll.job)'
    BY DEF Between
  <2>1. poll # NoPoll /\ poll' = poll
    BY <1>0
  <2>2. poll.job \in JobID
    BY <1>0, <2>1 DEF PollTypeOK
  <2>3. /\ Told(poll.job)
        /\ Stage(told[poll.job].status) <= Stage(poll.status)
        /\ Stage(poll.status) <= Now(poll.job)
    BY <1>0, <2>1 DEF Between
  <2>4. told'[poll.job] = told[poll.job]
    BY <1>4, <1>5, <2>2, <2>3
  <2>. QED BY <1>2, <2>1, <2>3, <2>4 DEF Told, Now, Shown
<1>11. ASSUME NEW j \in JobID, Told(j) PROVE told'[j] = told[j]
  BY <1>4, <1>5, <1>11
<1>. QED BY <1>1, <1>6, <1>7, <1>9, <1>10, <1>11 DEF PollInv

(* GetJob: the snapshot is read, or the client told that there is none.    *)
LEMMA GetJobKeeps ==
  ASSUME PollInv, NEW k \in JobID, PollGetJob(k)
  PROVE  /\ PollInv'
         /\ \A j \in JobID : Told(j) =>
              \/ told'[j] = told[j]
              \/ told'[j] = [status |-> "notFound", position |-> 0]
<1>0. /\ QueueInv /\ TypeOK /\ PollTypeOK /\ Behind /\ Between /\ PositionOnlyWhileQueued
      /\ poll = NoPoll /\ Told(k) /\ UNCHANGED queueVars
  BY DEF PollInv, QueueInv, PollGetJob, Told
<1>1. QueueInv' /\ TypeOK'
  BY <1>0, StutterPreserves DEF QueueInv
<1>2. UNCHANGED <<jobs, queueOrder, issued, submitting>>
  BY <1>0 DEF queueVars
<1>3. \A j \in JobID : Now(j)' = Now(j) /\ Position(j)' = Position(j)
  BY <1>2, TruthUnchanged
<1>4. k \in issued /\ k # submitting /\ Stage(told[k].status) <= Now(k)
  BY <1>0 DEF Behind
<1>5. CASE jobs[k] # "absent" /\ poll' = [job |-> k, status |-> jobs[k]] /\ UNCHANGED told
  <2>1. PollTypeOK' /\ PositionOnlyWhileQueued'
    <3>1. jobs[k] \in Status
      BY <1>0, <1>5 DEF TypeOK
    <3>. QED BY <1>0, <1>1, <1>5, <3>1 DEF PollTypeOK, PositionOnlyWhileQueued
  <2>2. Behind'
    BY <1>0, <1>2, <1>3, <1>5 DEF Behind, Told
  <2>3. Between'
    <3>1. Now(k) = Stage(jobs[k]) /\ Now(k) \in Nat
      BY <1>0, <1>5, NowValues DEF Now, Shown
    <3>2. poll'.job = k /\ poll'.status = jobs[k]
      BY <1>5
    <3>3. Now(poll.job)' = Now(k) /\ Told(poll.job)' /\ told'[k] = told[k]
      BY <1>0, <1>2, <1>5, <3>2 DEF Now, Shown, Told
    <3>. QED BY <1>4, <3>1, <3>2, <3>3 DEF Between
  <2>. QED BY <1>1, <1>5, <2>1, <2>2, <2>3 DEF PollInv
<1>6. CASE /\ jobs[k] = "absent" /\ UNCHANGED poll
           /\ told' = [told EXCEPT ![k] = [status |-> "notFound", position |-> 0]]
  <2>1. /\ told'[k] = [status |-> "notFound", position |-> 0]
        /\ \A j \in JobID : j # k => told'[j] = told[j]
    BY <1>0, <1>6 DEF PollTypeOK
  <2>2. PollTypeOK'
    <3>1. told'[k] \in Reply
      BY <2>1 DEF Reply
    <3>. QED BY <1>0, <1>1, <1>6, <3>1 DEF PollTypeOK
  <2>3. PositionOnlyWhileQueued' /\ Between'
    BY <1>0, <1>6, <2>1 DEF PositionOnlyWhileQueued, Between
  <2>4. Behind'
    <3> SUFFICES ASSUME NEW j \in JobID, told'[j].status # "unsent"
                 PROVE  /\ j \in issued' /\ j # submitting'
                        /\ Stage(told'[j].status) <= Now(j)'
                        /\ Position(j)' <= told'[j].position
      BY DEF Behind, Told
    <3>1. CASE j = k
      <4>1. Now(k) = 4
        BY <1>6, StageValues DEF Now, Shown
      <4>2. Position(k) = 0
        BY <1>0, <1>6, PositionMeans
      <4>. QED BY <1>2, <1>3, <1>4, <2>1, <3>1, <4>1, <4>2, StageValues
    <3>2. CASE j # k
      BY <1>0, <1>2, <1>3, <2>1, <3>2 DEF Behind, Told
    <3>. QED BY <3>1, <3>2
  <2>. QED BY <1>1, <2>1, <2>2, <2>3, <2>4 DEF PollInv
<1>. QED BY <1>5, <1>6 DEF PollGetJob

(* GetPosition: the answer joins an old status to a new position.          *)
LEMMA GetPositionKeeps ==
  ASSUME PollInv, PollGetPosition
  PROVE  /\ PollInv'
         /\ \A j \in JobID : Told(j) =>
              \/ told'[j] = told[j]
              \/ /\ Stage(told'[j].status) >= Stage(told[j].status)
                 /\ told'[j].position <= told[j].position
<1>0. /\ QueueInv /\ TypeOK /\ PollTypeOK /\ Behind /\ Between /\ PositionOnlyWhileQueued
      /\ poll # NoPoll /\ poll' = NoPoll /\ UNCHANGED queueVars
  BY DEF PollInv, QueueInv, PollGetPosition
<1> DEFINE k == poll.job
           s == poll.status
           p == Position(k)
<1>1. k \in JobID /\ s \in Status
  BY <1>0 DEF PollTypeOK
<1>2. told' = [told EXCEPT ![k] = [status |-> s, position |-> p]]
  BY DEF PollGetPosition
<1>3. Told(k) /\ Stage(told[k].status) <= Stage(s) /\ Stage(s) <= Now(k)
  BY <1>0 DEF Between
<1>4. /\ p \in Nat
      /\ p > 0 => jobs[k] = "queued"
  BY <1>0, <1>1, PositionMeans
<1> HIDE DEF k, s
<1>5. QueueInv' /\ TypeOK'
  BY <1>0, StutterPreserves DEF QueueInv
<1>6. UNCHANGED <<jobs, queueOrder, issued, submitting>>
  BY <1>0 DEF queueVars
<1>7. /\ told'[k] = [status |-> s, position |-> p]
      /\ \A j \in JobID : j # k => told'[j] = told[j]
  BY <1>0, <1>1, <1>2 DEF PollTypeOK
<1>8. k \in issued /\ k # submitting /\ p <= told[k].position
  BY <1>0, <1>1, <1>3 DEF Behind
<1>9. ASSUME p > 0 PROVE s = "queued"
  <2>1. Now(k) = 1
    BY <1>0, <1>1, <1>4, <1>9, NowValues
  <2>. QED BY <1>1, <1>3, <2>1, StageValues DEF Status, Terminal
<1>10. \A j \in JobID : Now(j)' = Now(j) /\ Position(j)' = Position(j)
  BY <1>6, TruthUnchanged
<1>11. PollTypeOK'
  <2>1. told'[k] \in Reply
    BY <1>1, <1>4, <1>7 DEF Reply
  <2>. QED BY <1>0, <1>1, <1>2, <1>5, <1>7, <2>1 DEF PollTypeOK
<1>12. PositionOnlyWhileQueued' /\ Between'
  BY <1>0, <1>7, <1>9 DEF PositionOnlyWhileQueued, Between
<1>13. Behind'
  <2> SUFFICES ASSUME NEW j \in JobID, told'[j].status # "unsent"
               PROVE  /\ j \in issued' /\ j # submitting'
                      /\ Stage(told'[j].status) <= Now(j)'
                      /\ Position(j)' <= told'[j].position
    BY DEF Behind, Told
  <2>1. CASE j = k
    BY <1>3, <1>4, <1>6, <1>7, <1>8, <1>10, <2>1
  <2>2. CASE j # k
    BY <1>0, <1>6, <1>7, <1>10, <2>2 DEF Behind, Told
  <2>. QED BY <2>1, <2>2
<1>14. \A j \in JobID : Told(j) =>
         \/ told'[j] = told[j]
         \/ /\ Stage(told'[j].status) >= Stage(told[j].status)
            /\ told'[j].position <= told[j].position
  <2>1. told'[k].status = s /\ told'[k].position = p
    BY <1>7
  <2>2. Stage(s) \in Nat /\ Stage(told[k].status) \in Nat
    <3>1. told[k].status \in Status \cup {"unsent", "notFound"}
      BY <1>0, <1>1 DEF PollTypeOK, Reply
    <3>. QED BY <1>1, <3>1, StageValues DEF Status, Terminal
  <2>. QED BY <1>3, <1>7, <1>8, <2>1, <2>2
<1>. QED BY <1>5, <1>11, <1>12, <1>13, <1>14 DEF PollInv

-----------------------------------------------------------------------------
(* The theorems                                                            *)

(* Any other step leaves what is told alone.                               *)
LEMMA MovesKeep ==
  ASSUME PollInv, \/ QueueMoves /\ UNCHANGED <<poll, told>>
                  \/ UNCHANGED pollVars
  PROVE  PollInv' /\ UNCHANGED told
<1>1. [QueueNext]_queueVars /\ UNCHANGED <<poll, told>>
  BY DEF QueueMoves, QueueNext, pollVars
<1>2. \A j \in JobID : j \in issued /\ j # submitting => j # submitting'
  BY DEF QueueMoves, SubmitAdmit, DeleteJobEntry, DeleteJobOrder, WorkerStep, WorkerReceive,
         WorkerExit, WorkerDequeue, WorkerPublish, WorkerStore, WorkerRelease, pollVars,
         queueVars
<1>. QED BY <1>1, <1>2, QueueMoveKeeps

LEMMA PollInvStep == PollInv /\ [PollNext]_pollVars => PollInv'
BY AnswerKeeps, GetJobKeeps, GetPositionKeeps, MovesKeep DEF PollNext

LEMMA PollInvariant == PollSpec => []PollInv
BY PollInvInit, PollInvStep, PTL DEF PollSpec

(* The types: no reply has a status or a position that is none.            *)
THEOREM PollTypeCorrect == PollSpec => []PollTypeOK
<1>1. PollInv => PollTypeOK
  BY DEF PollInv
<1>. QED BY <1>1, PollInvariant, PTL

(* A client that is told a position above 0 is told that its job is queued *)
(* (queue.go of the handlers), although the two are read apart.            *)
THEOREM PositionOnlyWhileQueuedCorrect == PollSpec => []PositionOnlyWhileQueued
<1>1. PollInv => PositionOnlyWhileQueued
  BY DEF PollInv
<1>. QED BY <1>1, PollInvariant, PTL

LEMMA RepliesStep ==
  ASSUME PollInv, [PollNext]_pollVars, NEW j \in JobID, Told(j)
  PROVE  /\ Stage(told'[j].status) >= Stage(told[j].status)
         /\ told'[j].position <= told[j].position
<1>1. told[j] \in Reply
  BY DEF PollInv, PollTypeOK
<1>2. Stage(told[j].status) \in 0..4 /\ told[j].position \in Nat
  BY <1>1, StageValues DEF Reply, Status, Terminal
<1>3. CASE told'[j] = told[j]
  BY <1>2, <1>3
<1>4. CASE told'[j] = [status |-> "notFound", position |-> 0]
  BY <1>2, <1>4, StageValues
<1>5. CASE AnswerAccepted
  BY <1>3, <1>5, AnswerKeeps
<1>6. ASSUME NEW k \in JobID, PollGetJob(k)
      PROVE  told'[j] = told[j] \/ told'[j] = [status |-> "notFound", position |-> 0]
  BY <1>6, GetJobKeeps
<1>7. CASE PollGetPosition
  BY <1>3, <1>7, GetPositionKeeps
<1>8. CASE (QueueMoves /\ UNCHANGED <<poll, told>>) \/ UNCHANGED pollVars
  BY <1>3, <1>8 DEF pollVars
<1>. QED BY <1>3, <1>4, <1>5, <1>6, <1>7, <1>8 DEF PollNext

(* Reply after reply, a client sees its job move on: the two steps of the  *)
(* handler never make it look as if the job went back.                     *)
THEOREM RepliesCorrect == PollSpec => RepliesNeverRegress
<1>1. PollInv /\ [PollNext]_pollVars =>
        [\A j \in JobID :
           told[j].status # "unsent" =>
             /\ Stage(told'[j].status) >= Stage(told[j].status)
             /\ told'[j].position <= told[j].position]_told
  BY RepliesStep DEF Told
<1>. QED BY <1>1, PollInvariant, PTL DEF PollSpec, RepliesNeverRegress
=============================================================================
