--------------------------- MODULE JobServiceProofs ---------------------------
(***************************************************************************)
(* Proofs about JobService for every set of jobs, of downloads and of      *)
(* output files, and for every number of crashes.  Between two crashes the *)
(* queue inside is the queue of JobQueue: its invariant is used here.      *)
(***************************************************************************)
EXTENDS JobService, JobQueueProofs

-----------------------------------------------------------------------------
(* The queue inside                                                        *)

(* A step of the service is a step of the queue, or leaves the queue alone,*)
(* or is a crash.                                                          *)
LEMMA StepOfQueue ==
  QueueInv /\ [ServiceNext]_serviceVars => [QueueNext]_queueVars \/ Crash
<1> SUFFICES ASSUME QueueInv, [ServiceNext]_serviceVars, ~Crash
             PROVE  [QueueNext]_queueVars
  OBVIOUS
<1>1. CASE QueueSteps
  BY <1>1 DEF QueueSteps, QueueNext, WorkerStep
<1>2. CASE Uploads
  <2>1. ASSUME NEW j \in JobID, UploadSubmit(j) PROVE QueueNext
    BY <2>1 DEF UploadSubmit, QueueNext
  <2>2. ASSUME NEW j \in JobID, UploadMkdir(j) \/ UploadWrite(j) \/ UploadRefused(j)
        PROVE UNCHANGED queueVars
    BY <2>2 DEF UploadMkdir, UploadWrite, UploadRefused
  <2>. QED BY <1>2, <2>1, <2>2 DEF Uploads
<1>3. CASE Conversions
  BY <1>3 DEF Conversions, ConvertBegins, ConvertEnds, QueueNext, WorkerStep
<1>4. CASE Downloads
  <2>1. ASSUME NEW j \in JobID, ReapDeletes(j) PROVE QueueNext
    BY <2>1 DEF ReapDeletes, QueueNext
  <2>2. ASSUME NEW j \in JobID, ReapRemoves(j) PROVE UNCHANGED queueVars
    BY <2>2 DEF ReapRemoves
  <2>3. ASSUME NEW d \in Downloader,
               \/ \E j \in JobID : DownloadFinds(d, j)
               \/ DownloadOpens(d) \/ DownloadMarks(d) \/ DownloadStreams(d)
               \/ ZipCopies(d) \/ ZipStops(d) \/ ZipEnds(d)
        PROVE UNCHANGED queueVars
    BY <2>3 DEF DownloadFinds, DownloadOpens, DownloadMarks, DownloadStreams,
                ZipCopies, ZipStops, ZipEnds
  <2>. QED BY <1>4, <2>1, <2>2, <2>3 DEF Downloads
<1>5. CASE Cleaning
  <2>1. ASSUME ExpiredDeleted PROVE [QueueNext]_queueVars
    <3>1. target \in JobID
      BY <2>1 DEF ExpiredDeleted, DeleteJobEntry, Finished, QueueInv, TypeOK
    <3>. QED BY <2>1, <3>1 DEF ExpiredDeleted, QueueNext
  <2>. QED
    BY <1>5, <2>1
       DEF Cleaning, SweepBegins, ExpiredRemoved, ExpiredNotRemoved, OrphanChecked,
           OrphansBegin, OrphansSkipped, OrphanRemoved, OrphanNotRemoved,
           OrphanDone, SweepEnds
<1>6. CASE Ageing
  BY <1>6 DEF Ageing, DirAges, ResultAges
<1>7. CASE UNCHANGED serviceVars
  BY <1>7 DEF serviceVars
<1>. QED
  BY <1>1, <1>2, <1>3, <1>4, <1>5, <1>6, <1>7 DEF ServiceNext

(* A crash leaves an empty queue, and the ids it has seen.                 *)
LEMMA QueueAfterCrash ==
  ASSUME QueueInv, Crash
  PROVE  QueueInv'
<1> USE QueueAssumption
<1>1. /\ jobs' = [j \in JobID |-> "absent"] /\ jobChan' = <<>> /\ queueOrder' = <<>>
      /\ inflight' = [c \in Client |-> 0] /\ submitting' = NoJob
      /\ worker' = "select" /\ current' = NoJob /\ deleting' = {}
      /\ UNCHANGED <<cancelled, issued>>
  BY DEF Crash
<1>2. TypeOK'
  <2>1. jobChan' \in Seq(JobID) /\ queueOrder' \in Seq(JobID)
    BY <1>1
  <2>2. jobs' \in [JobID -> Status \cup {"absent"}] /\ inflight' \in [Client -> Nat]
    BY <1>1
  <2>. QED BY <1>1, <2>1, <2>2 DEF QueueInv, TypeOK, WorkerPoint
<1>3. ToSet(queueOrder') = {}
  BY <1>1 DEF ToSet
<1>4. OrderMatchesChannel' /\ Reserved'
  BY <1>1 DEF OrderMatchesChannel, InHand, BeingSent, Reserved
<1>5. NoJobStranded'
  BY <1>1, <1>3 DEF NoJobStranded
<1>6. Placement'
  BY <1>1, <1>3 DEF Placement, WorkerBusy, Distinct, ToSet
<1>. QED BY <1>2, <1>4, <1>5, <1>6 DEF QueueInv

LEMMA QueueInvKept == QueueInv /\ [ServiceNext]_serviceVars => QueueInv'
BY StepOfQueue, QueueInvStep, QueueAfterCrash

(* A job that has its outcome, or had it before a crash, never waits or    *)
(* runs again, and a job that is forgotten stays forgotten.                *)
LEMMA FinishedStable ==
  ASSUME QueueInv, [ServiceNext]_serviceVars, NEW j \in JobID, Finished(j)
  PROVE  Finished(j)' /\ (jobs[j] = "absent" => jobs'[j] = "absent")
<1>1. TypeOK /\ NoJobStranded /\ Placement /\ Finished(j)
  BY DEF QueueInv
<1>2. CASE Crash
  BY <1>1, <1>2 DEF Crash, Finished
<1>3. CASE [QueueNext]_queueVars
  <2>1. ASSUME NEW k \in JobID, SubmitAdmit(k) PROVE issued \subseteq issued' /\ jobs'[j] = jobs[j]
    BY <1>1, <2>1 DEF SubmitAdmit, Finished, TypeOK
  <2>2. ASSUME NEW k \in JobID, DeleteJobEntry(k)
        PROVE  issued \subseteq issued' /\ jobs'[j] \in {jobs[j], "absent"}
    BY <1>1, <2>2 DEF DeleteJobEntry, TypeOK
  <2>3. ASSUME WorkerPublish PROVE issued \subseteq issued' /\ jobs'[j] = jobs[j]
    BY <1>1, <2>3 DEF WorkerPublish, Finished, TypeOK, NoJobStranded
  <2>4. ASSUME NEW result \in Result, WorkerStore(result)
        PROVE  issued \subseteq issued' /\ jobs'[j] = jobs[j]
    BY <1>1, <2>4 DEF WorkerStore, Finished, TypeOK, NoJobStranded
  <2>5. ASSUME \/ SubmitSend \/ WorkerReceive \/ WorkerExit \/ WorkerDequeue
               \/ WorkerRelease \/ Cancel \/ Stopped \/ UNCHANGED queueVars
               \/ \E k \in JobID : DeleteJobOrder(k)
        PROVE  issued' = issued /\ jobs' = jobs
    BY <2>5 DEF SubmitSend, WorkerReceive, WorkerExit, WorkerDequeue, WorkerRelease,
                Cancel, Stopped, DeleteJobOrder, queueVars
  <2>6. issued \subseteq issued' /\ jobs'[j] \in {jobs[j], "absent"}
    BY <1>3, <2>1, <2>2, <2>3, <2>4, <2>5 DEF QueueNext, WorkerStep
  <2>. QED BY <1>1, <2>6 DEF Finished
<1>. QED BY <1>2, <1>3, StepOfQueue

-----------------------------------------------------------------------------
(* The inductive invariant of the service                                  *)

Requested(d) == request[d] # NoRequest

(* An upload that is not answered has submitted nothing, and its directory *)
(* is not old.                                                             *)
UploadsFresh ==
  \A j \in JobID : upload[j] # "over" => j \notin issued /\ j \notin dirOld

(* What is claimed, old, requested or reaped has finished; what is reaped  *)
(* is claimed; and a request has found a job that is still in the table,   *)
(* unless it has been claimed or has expired meanwhile.                    *)
ClaimsFinished ==
  /\ \A j \in marked \cup doneOld : Finished(j)
  /\ \A d \in Downloader : Requested(d) =>
       /\ Finished(JobOf(d))
       /\ jobs[JobOf(d)] = "done" \/ JobOf(d) \in marked \cup doneOld
       /\ At(d, "owner") => JobOf(d) \in marked
  /\ \A j \in JobID : reap[j] # "none" => j \in marked

(* What the cleaner is about to remove, it may remove, although it looked  *)
(* some steps ago.                                                         *)
CleanerInv ==
  /\ cleaner \in {"expired", "delete"} => todo \subseteq doneOld
  /\ cleaner = "delete" => target \in doneOld
  /\ cleaner = "orphan" => /\ target \in JobID
                           /\ upload[target] = "over"
                           /\ jobs[target] = "absent"

(* A result nobody has claimed and that is not old is on the disk.         *)
ResultKept ==
  \A j \in JobID \ (marked \cup doneOld) : jobs[j] = "done" => dir[j] = "output"

(* The sent and the counted results: at most one, after which nobody owns  *)
(* the job, and the flag that says so is set or went down with the job.    *)
Handed(j) == delivered[j] # 0 \/ counted[j] # 0

OnceInv ==
  /\ HandedOutOnce
  /\ \A j \in JobID : Handed(j) =>
       /\ Finished(j)
       /\ \A d \in Downloader : ~(At(d, "owner") /\ JobOf(d) = j)
       /\ j \in marked \/ /\ jobs[j] = "absent"
                          /\ \A d \in Downloader : ~(Requested(d) /\ JobOf(d) = j)
  /\ \A d, e \in Downloader :
       At(d, "owner") /\ At(e, "owner") /\ JobOf(d) = JobOf(e) => d = e

ServiceInv ==
  /\ QueueInv
  /\ ServiceTypeOK
  /\ UploadsFresh
  /\ ClaimsFinished
  /\ CleanerInv
  /\ LiveJobKeepsInput
  /\ ResultKept
  /\ OnceInv

LEMMA ServiceInvInit == ServiceInit => ServiceInv
<1> SUFFICES ASSUME ServiceInit PROVE ServiceInv
  OBVIOUS
<1> USE ServiceAssumption DEF ServiceInit
<1>1. QueueInv
  BY QueueInvInit
<1>2. ServiceTypeOK
  BY <1>1 DEF ServiceTypeOK, QueueInv
<1>3. UploadsFresh /\ CleanerInv
  BY DEF UploadsFresh, CleanerInv, QueueInit
<1>4. ClaimsFinished
  BY DEF ClaimsFinished, Requested
<1>5. LiveJobKeepsInput /\ ResultKept
  BY DEF LiveJobKeepsInput, ResultKept, QueueInit
<1>6. OnceInv
  BY DEF OnceInv, HandedOutOnce, Handed, At
<1>. QED BY <1>1, <1>2, <1>3, <1>4, <1>5, <1>6 DEF ServiceInv

-----------------------------------------------------------------------------
(* Every step preserves the types                                          *)

LEMMA RemovalTypes ==
  ASSUME ServiceTypeOK, NEW j, RemoveAll(j) \/ RemoveAllFails(j)
  PROVE  /\ dir' \in [JobID -> {"none", "input", "output", "rubble"}]
         /\ dirOld' \in SUBSET JobID
         /\ doneOld' = doneOld
BY DEF ServiceTypeOK, RemoveAll, RemoveAllFails

(* Copying a file into a zip changes only the progress of the request.     *)
LEMMA ZipCopiesRequest ==
  ASSUME ServiceTypeOK, NEW d \in Downloader, ZipCopies(d)
  PROVE  \E r \in Request : /\ request' = [request EXCEPT ![d] = r]
                            /\ r.job = JobOf(d) /\ r.at = "owner"
<1> USE ServiceAssumption
<1>1. PICK broken \in BOOLEAN :
        request' = [request EXCEPT ![d].sent = @ + 1, ![d].broken = @ \/ broken]
  BY DEF ZipCopies
<1> DEFINE b == request[d].broken \/ broken
           r == [job |-> JobOf(d), at |-> "owner", sent |-> request[d].sent + 1, broken |-> b]
<1>2. request[d] \in Request /\ request[d].at = "owner" /\ request[d].sent < Files
  BY DEF ZipCopies, At, ServiceTypeOK
<1>3. request[d].sent \in 0..Files /\ request[d].job \in JobID
  BY <1>2 DEF Request
<1>4. request[d].sent + 1 \in 0..Files
  BY <1>2, <1>3
<1>5. b \in BOOLEAN
  OBVIOUS
<1> HIDE DEF b
<1>6. r \in Request /\ r.job = JobOf(d) /\ r.at = "owner"
  BY <1>3, <1>4, <1>5 DEF Request, JobOf
<1>7. [request[d] EXCEPT !.sent = @ + 1, !.broken = @ \/ broken] = r
  <2> DEFINE q == [request[d] EXCEPT !.sent = @ + 1]
  <2>1. q = [job |-> JobOf(d), at |-> "owner", sent |-> request[d].sent + 1,
             broken |-> request[d].broken]
    BY <1>2 DEF Request, JobOf
  <2>2. [request[d] EXCEPT !.sent = @ + 1, !.broken = @ \/ broken] = [q EXCEPT !.broken = b]
    BY Zenon DEF b
  <2> HIDE DEF q
  <2>3. [q EXCEPT !.broken = b] = r
    BY <2>1
  <2>. QED BY <2>2, <2>3
<1>8. request' = [request EXCEPT ![d] = r]
  BY <1>1, <1>7
<1>. QED BY <1>6, <1>8

LEMMA ServiceTypesKept ==
  ASSUME QueueInv, ServiceTypeOK, [ServiceNext]_serviceVars
  PROVE  ServiceTypeOK'
<1> USE DEF dirVars, requestVars, cleanerVars
<1>0. TypeOK'
  BY QueueInvKept DEF QueueInv
<1>1. CASE QueueSteps
  BY <1>0, <1>1 DEF QueueSteps, ServiceTypeOK
<1>2. CASE Uploads
  <2>1. ASSUME NEW j \in JobID, UploadMkdir(j) \/ UploadSubmit(j) PROVE ServiceTypeOK'
    BY <1>0, <2>1 DEF UploadMkdir, UploadSubmit, ServiceTypeOK
  <2>2. ASSUME NEW j \in JobID, UploadWrite(j) PROVE ServiceTypeOK'
    <3>1. CASE UNCHANGED dirVars
      BY <1>0, <2>2, <3>1 DEF UploadWrite, ServiceTypeOK
    <3>2. CASE RemoveAll(j) \/ RemoveAllFails(j)
      BY <1>0, <2>2, <3>2, RemovalTypes DEF UploadWrite, ServiceTypeOK
    <3>. QED BY <2>2, <3>1, <3>2 DEF UploadWrite
  <2>3. ASSUME NEW j \in JobID, UploadRefused(j) PROVE ServiceTypeOK'
    BY <1>0, <2>3, RemovalTypes DEF UploadRefused, ServiceTypeOK
  <2>. QED BY <1>2, <2>1, <2>2, <2>3 DEF Uploads
<1>3. CASE Conversions
  BY <1>0, <1>3 DEF Conversions, ConvertBegins, ConvertEnds, ServiceTypeOK
<1>4. CASE Downloads
  <2>1. ASSUME NEW d \in Downloader, NEW j \in JobID, DownloadFinds(d, j) PROVE ServiceTypeOK'
    BY <1>0, <2>1, ServiceAssumption, 0 \in 0..Files DEF DownloadFinds, ServiceTypeOK, Request
  <2>2. ASSUME NEW d \in Downloader, DownloadOpens(d) \/ DownloadMarks(d) PROVE ServiceTypeOK'
    BY <1>0, <2>2
       DEF DownloadOpens, DownloadMarks, Advance, End, At, JobOf, ServiceTypeOK, Request
  <2>3. ASSUME NEW d \in Downloader, DownloadStreams(d) \/ ZipEnds(d) PROVE ServiceTypeOK'
    BY <1>0, <2>3
       DEF DownloadStreams, ZipEnds, Complete, End, At, JobOf, ServiceTypeOK, Request
  <2>4. ASSUME NEW d \in Downloader, ZipStops(d) PROVE ServiceTypeOK'
    BY <1>0, <2>4 DEF ZipStops, End, At, JobOf, ServiceTypeOK, Request
  <2>7. ASSUME NEW d \in Downloader, ZipCopies(d) PROVE ServiceTypeOK'
    BY <1>0, <2>7, ZipCopiesRequest DEF ZipCopies, ServiceTypeOK
  <2>5. ASSUME NEW j \in JobID, ReapRemoves(j) PROVE ServiceTypeOK'
    BY <1>0, <2>5, RemovalTypes DEF ReapRemoves, ServiceTypeOK
  <2>6. ASSUME NEW j \in JobID, ReapDeletes(j) PROVE ServiceTypeOK'
    BY <1>0, <2>6 DEF ReapDeletes, ServiceTypeOK
  <2>. QED BY <1>4, <2>1, <2>2, <2>3, <2>4, <2>5, <2>6, <2>7 DEF Downloads
<1>5. CASE Cleaning
  <2>1. ASSUME NEW j \in JobID, ExpiredRemoved(j) \/ ExpiredNotRemoved(j) PROVE ServiceTypeOK'
    BY <1>0, <2>1, RemovalTypes DEF ExpiredRemoved, ExpiredNotRemoved, ServiceTypeOK
  <2>2. CASE OrphanRemoved \/ OrphanNotRemoved
    BY <1>0, <2>2, RemovalTypes DEF OrphanRemoved, OrphanNotRemoved, OrphanDone, ServiceTypeOK
  <2>3. ASSUME \/ SweepBegins \/ ExpiredDeleted \/ OrphansBegin \/ OrphansSkipped \/ SweepEnds
               \/ \E j \in JobID : OrphanChecked(j)
        PROVE ServiceTypeOK'
    BY <1>0, <2>3 DEF SweepBegins, ExpiredDeleted, OrphansBegin, OrphansSkipped, SweepEnds,
                      OrphanChecked, ServiceTypeOK
  <2>. QED BY <1>5, <2>1, <2>2, <2>3 DEF Cleaning
<1>6. CASE Ageing
  BY <1>0, <1>6 DEF Ageing, DirAges, ResultAges, ServiceTypeOK
<1>7. CASE Crash
  BY <1>0, <1>7, ServiceAssumption DEF Crash, ServiceTypeOK
<1>8. CASE UNCHANGED serviceVars
  BY <1>0, <1>8 DEF serviceVars, ServiceTypeOK
<1>. QED
  BY <1>1, <1>2, <1>3, <1>4, <1>5, <1>6, <1>7, <1>8 DEF ServiceNext

-----------------------------------------------------------------------------
(* What one step can do to each variable                                   *)

(* A job gets its status from its submission or from its conversion, and   *)
(* a finished one is forgotten by a download, by the cleaner or in a crash.*)
LEMMA JobsStep ==
  ASSUME QueueInv, [ServiceNext]_serviceVars, NEW j \in JobID
  PROVE  \/ jobs'[j] = jobs[j] /\ (j \in issued' => j \in issued)
         \/ UploadSubmit(j) /\ jobs'[j] = "queued"
         \/ ConvertBegins /\ current = j /\ jobs[j] = "queued" /\ jobs'[j] = "processing"
         \/ \E result \in Result : /\ ConvertEnds(result)
                                   /\ current = j
                                   /\ jobs[j] = "processing"
                                   /\ jobs'[j] = FinalStatus(result)
         \/ jobs'[j] = "absent" /\ issued' = issued /\
              (ReapDeletes(j) \/ (ExpiredDeleted /\ target = j) \/ Crash)
<1> USE DEF queueVars
<1>0. TypeOK /\ NoJobStranded
  BY DEF QueueInv
<1>1. CASE QueueSteps
  BY <1>1 DEF QueueSteps, SubmitSend, WorkerReceive, WorkerDequeue, WorkerRelease,
              DeleteJobOrder
<1>2. CASE Uploads
  BY <1>0, <1>2 DEF Uploads, UploadMkdir, UploadWrite, UploadRefused, UploadSubmit, SubmitAdmit, TypeOK
<1>3. CASE ConvertBegins
  BY <1>0, <1>3 DEF ConvertBegins, WorkerPublish, TypeOK, NoJobStranded
<1>4. ASSUME NEW result \in Result, ConvertEnds(result)
      PROVE \/ jobs'[j] = jobs[j] /\ (j \in issued' => j \in issued)
            \/ current = j /\ jobs[j] = "processing" /\ jobs'[j] = FinalStatus(result)
  BY <1>0, <1>4 DEF ConvertEnds, WorkerStore, TypeOK, NoJobStranded
<1>5. CASE Downloads
  <2>1. ASSUME NEW k \in JobID, ReapDeletes(k)
        PROVE issued' = issued /\ (jobs'[j] = jobs[j] \/ (k = j /\ jobs'[j] = "absent"))
    BY <1>0, <2>1 DEF ReapDeletes, DeleteJobEntry, TypeOK
  <2>2. ASSUME \/ \E k \in JobID : ReapRemoves(k)
               \/ \E d \in Downloader :
                    \/ \E k \in JobID : DownloadFinds(d, k)
                    \/ DownloadOpens(d) \/ DownloadMarks(d) \/ DownloadStreams(d)
                    \/ ZipCopies(d) \/ ZipStops(d) \/ ZipEnds(d)
        PROVE jobs' = jobs /\ issued' = issued
    BY <2>2 DEF ReapRemoves, DownloadFinds, DownloadOpens, DownloadMarks, DownloadStreams,
                ZipCopies, ZipStops, ZipEnds
  <2>. QED BY <1>5, <2>1, <2>2 DEF Downloads
<1>6. CASE Cleaning
  <2>1. ASSUME ExpiredDeleted
        PROVE issued' = issued /\ (jobs'[j] = jobs[j] \/ (target = j /\ jobs'[j] = "absent"))
    BY <1>0, <2>1 DEF ExpiredDeleted, DeleteJobEntry, Finished, TypeOK
  <2>2. ASSUME Cleaning, ~ExpiredDeleted PROVE jobs' = jobs /\ issued' = issued
    BY <2>2 DEF Cleaning, SweepBegins, ExpiredRemoved, ExpiredNotRemoved, OrphanChecked,
                OrphansBegin, OrphansSkipped, OrphanRemoved, OrphanNotRemoved,
                OrphanDone, SweepEnds
  <2>. QED BY <1>6, <2>1, <2>2
<1>7. CASE Ageing
  BY <1>7 DEF Ageing, DirAges, ResultAges
<1>8. CASE Crash
  BY <1>8 DEF Crash
<1>9. CASE UNCHANGED serviceVars
  BY <1>9 DEF serviceVars
<1>. QED
  BY <1>1, <1>2, <1>3, <1>4, <1>5, <1>6, <1>7, <1>8, <1>9 DEF ServiceNext, Conversions

(* An answered upload is over; nothing is submitted, and no directory gets *)
(* old, before that.                                                       *)
LEMMA UploadStep ==
  ASSUME ServiceTypeOK, [ServiceNext]_serviceVars, NEW j \in JobID
  PROVE  /\ upload[j] = "over" => upload'[j] = "over"
         /\ j \in dirOld' => j \in dirOld \/ upload'[j] = "over"
         /\ UploadSubmit(j) => upload'[j] = "over"
         /\ upload'[j] = upload[j] \/ UploadMkdir(j) \/ UploadSubmit(j) \/ UploadRefused(j)
              \/ UploadWrite(j) \/ upload'[j] = "over"
<1> USE DEF ServiceTypeOK, dirVars
<1>1. CASE QueueSteps
  BY <1>1 DEF QueueSteps, UploadSubmit
<1>2. CASE Uploads
  BY <1>2 DEF Uploads, UploadMkdir, UploadWrite, UploadRefused, UploadSubmit,
              RemoveAll, RemoveAllFails
<1>3. CASE Conversions
  BY <1>3 DEF Conversions, ConvertBegins, ConvertEnds, UploadSubmit
<1>4. CASE Downloads
  <2>1. upload' = upload /\ dirOld' \subseteq dirOld
    BY <1>4 DEF Downloads, ReapRemoves, ReapDeletes, RemoveAll, RemoveAllFails,
                DownloadFinds, DownloadOpens, DownloadMarks, DownloadStreams,
                ZipCopies, ZipStops, ZipEnds
  <2>. QED BY <2>1 DEF UploadSubmit
<1>5. CASE Cleaning
  <2>1. upload' = upload /\ dirOld' \subseteq dirOld
    BY <1>5 DEF Cleaning, SweepBegins, ExpiredRemoved, ExpiredNotRemoved, ExpiredDeleted,
                OrphanChecked, OrphansBegin, OrphansSkipped, OrphanRemoved,
                OrphanNotRemoved, OrphanDone, SweepEnds, RemoveAll, RemoveAllFails
  <2>. QED BY <2>1 DEF UploadSubmit
<1>6. CASE Ageing
  BY <1>6 DEF Ageing, DirAges, ResultAges, UploadSubmit
<1>7. CASE Crash
  BY <1>7 DEF Crash, UploadSubmit
<1>8. CASE UNCHANGED serviceVars
  BY <1>8 DEF serviceVars, UploadSubmit
<1>. QED
  BY <1>1, <1>2, <1>3, <1>4, <1>5, <1>6, <1>7, <1>8 DEF ServiceNext

(* Who writes and removes a directory.                                     *)
LEMMA DirStep ==
  ASSUME ServiceTypeOK, [ServiceNext]_serviceVars, NEW j \in JobID, dir'[j] # dir[j]
  PROVE  \/ UploadMkdir(j) \/ UploadWrite(j) \/ UploadRefused(j)
         \/ \E result \in Result : ConvertEnds(result) /\ current = j
         \/ ReapRemoves(j) \/ ExpiredRemoved(j) \/ ExpiredNotRemoved(j)
         \/ OrphanDone /\ target = j /\ UNCHANGED <<jobs, upload>>
<1> USE DEF ServiceTypeOK, dirVars, queueVars
<1>1. CASE QueueSteps \/ Ageing \/ Crash \/ UNCHANGED serviceVars
  BY <1>1 DEF QueueSteps, Ageing, DirAges, ResultAges, Crash, serviceVars
<1>2. ASSUME NEW k \in JobID, k # j, RemoveAll(k) \/ RemoveAllFails(k) PROVE dir'[j] = dir[j]
  BY <1>2 DEF RemoveAll, RemoveAllFails
<1>3. CASE Uploads
  BY <1>2, <1>3 DEF Uploads, UploadMkdir, UploadWrite, UploadRefused, UploadSubmit
<1>4. CASE Conversions
  BY <1>4 DEF Conversions, ConvertBegins, ConvertEnds
<1>5. CASE Downloads
  BY <1>2, <1>5 DEF Downloads, ReapRemoves, ReapDeletes, DownloadFinds, DownloadOpens,
                    DownloadMarks, DownloadStreams, ZipCopies, ZipStops, ZipEnds
<1>6. CASE Cleaning
  <2>1. CASE OrphanRemoved \/ OrphanNotRemoved
    BY <2>1 DEF OrphanRemoved, OrphanNotRemoved, OrphanDone, RemoveAll, RemoveAllFails
  <2>2. ASSUME Cleaning, ~OrphanRemoved, ~OrphanNotRemoved
        PROVE  ExpiredRemoved(j) \/ ExpiredNotRemoved(j)
    BY <1>2, <2>2 DEF Cleaning, SweepBegins, ExpiredRemoved, ExpiredNotRemoved, ExpiredDeleted,
                OrphanChecked, OrphansBegin, OrphansSkipped, SweepEnds
  <2>. QED BY <1>6, <2>1, <2>2
<1>. QED
  BY <1>1, <1>3, <1>4, <1>5, <1>6 DEF ServiceNext

(* No step but the crash and those of the downloads and their reaping      *)
(* touches what the downloads share.                                       *)
LEMMA RequestFrame ==
  ASSUME [ServiceNext]_serviceVars, ~Downloads, ~Crash
  PROVE  UNCHANGED requestVars
BY DEF ServiceNext, serviceVars, QueueSteps, Uploads, UploadMkdir, UploadWrite,
       UploadRefused, UploadSubmit, Conversions, ConvertBegins, ConvertEnds, Cleaning,
       SweepBegins, ExpiredRemoved, ExpiredNotRemoved, ExpiredDeleted, OrphanChecked,
       OrphansBegin, OrphansSkipped, OrphanRemoved, OrphanNotRemoved, OrphanDone,
       SweepEnds, Ageing, DirAges, ResultAges

(* A request keeps its job, and becomes the owner only by taking the flag. *)
Claims(d) ==
  /\ DownloadMarks(d)
  /\ At(d, "opened")
  /\ JobOf(d) \notin marked
  /\ marked' = marked \cup {JobOf(d)}
  /\ \A e \in Downloader : e # d => request'[e] = request[e]

LEMMA RequestStep ==
  ASSUME ServiceTypeOK, [ServiceNext]_serviceVars, NEW d \in Downloader, Requested(d)'
  PROVE  /\ ~Crash
         /\ \/ \E j \in JobID : DownloadFinds(d, j) /\ JobOf(d)' = j /\ ~At(d, "owner")'
            \/ /\ Requested(d)
               /\ JobOf(d)' = JobOf(d)
               /\ At(d, "owner")' => At(d, "owner") \/ Claims(d)
<1> USE DEF Requested, At, JobOf
<1>1. ~Crash
  BY DEF Crash
<1>2. CASE UNCHANGED request
  BY <1>1, <1>2
<1>3. ASSUME NEW e \in Downloader, NEW j \in JobID, DownloadFinds(e, j)
      PROVE  \/ e = d /\ JobOf(d)' = j /\ ~At(d, "owner")'
             \/ request'[d] = request[d]
  BY <1>3 DEF DownloadFinds, ServiceTypeOK
<1>4. ASSUME NEW e \in Downloader, DownloadOpens(e)
      PROVE  Requested(d) /\ JobOf(d)' = JobOf(d) /\ (At(d, "owner")' => At(d, "owner"))
  <2>1. CASE e = d
    BY <1>4, <2>1 DEF DownloadOpens, Advance, End, ServiceTypeOK, Request
  <2>2. CASE e # d
    BY <1>4, <2>2 DEF DownloadOpens, Advance, End, ServiceTypeOK
  <2>. QED BY <2>1, <2>2
<1>5. ASSUME NEW e \in Downloader, DownloadMarks(e)
      PROVE  /\ Requested(d) /\ JobOf(d)' = JobOf(d)
             /\ At(d, "owner")' => At(d, "owner") \/ Claims(d)
  <2>1. CASE e = d
    <3>1. JobOf(d) \notin marked /\ marked' = marked \cup {JobOf(d)} /\ Advance(d, "owner")
      BY <1>5, <2>1 DEF DownloadMarks, End, ServiceTypeOK
    <3>2. \A k \in Downloader : k # d => request'[k] = request[k]
      BY <3>1 DEF Advance, ServiceTypeOK
    <3>3. At(d, "opened") /\ JobOf(d)' = JobOf(d)
      BY <1>5, <2>1, <3>1 DEF DownloadMarks, Advance, ServiceTypeOK, Request
    <3>. QED BY <1>5, <2>1, <3>1, <3>2, <3>3 DEF Claims
  <2>2. CASE e # d
    BY <1>5, <2>2 DEF DownloadMarks, Advance, End, ServiceTypeOK
  <2>. QED BY <2>1, <2>2
<1>6. ASSUME NEW e \in Downloader, DownloadStreams(e) \/ ZipStops(e) \/ ZipEnds(e)
      PROVE  request'[d] = request[d]
  <2>1. request' = [request EXCEPT ![e] = NoRequest]
    BY <1>6 DEF DownloadStreams, ZipStops, ZipEnds, Complete, End
  <2>. QED BY <2>1 DEF ServiceTypeOK
<1>7. ASSUME NEW e \in Downloader, ZipCopies(e)
      PROVE  Requested(d) /\ JobOf(d)' = JobOf(d) /\ (At(d, "owner")' => At(d, "owner"))
  <2>1. PICK r \in Request : request' = [request EXCEPT ![e] = r] /\ r.job = JobOf(e) /\ r.at = "owner"
    BY <1>7, ZipCopiesRequest
  <2>. QED BY <1>7, <2>1 DEF ZipCopies, ServiceTypeOK
<1>8. ASSUME NEW j \in JobID, ReapRemoves(j) \/ ReapDeletes(j)
      PROVE  UNCHANGED request
  BY <1>8 DEF ReapRemoves, ReapDeletes
<1>9. CASE Downloads
  BY <1>1, <1>3, <1>4, <1>5, <1>6, <1>7, <1>8, <1>9 DEF Downloads
<1>. QED BY <1>1, <1>2, <1>9, RequestFrame DEF requestVars

(* A flag is set by a claim, a result ages by itself, and neither goes back*)
(* but in a crash.                                                         *)
LEMMA MarkStep ==
  ASSUME ServiceTypeOK, [ServiceNext]_serviceVars
  PROVE  /\ \A j \in marked' : j \in marked \/ \E d \in Downloader : Requested(d) /\ JobOf(d) = j
         /\ \A j \in doneOld' : j \in doneOld \/ jobs[j] \in Terminal
         /\ ~Crash => marked \subseteq marked' /\ doneOld \subseteq doneOld'
<1>1. \A j \in marked' : j \in marked \/ \E d \in Downloader : Requested(d) /\ JobOf(d) = j
  BY RequestFrame
     DEF requestVars, Downloads, DownloadFinds, DownloadOpens, DownloadMarks, DownloadStreams,
         ZipCopies, ZipStops, ZipEnds, ReapRemoves, ReapDeletes, Crash, Requested, At
<1>2. ~Crash => marked \subseteq marked'
  BY RequestFrame
     DEF requestVars, Downloads, DownloadFinds, DownloadOpens, DownloadMarks, DownloadStreams,
         ZipCopies, ZipStops, ZipEnds, ReapRemoves, ReapDeletes
<1>3. \/ UNCHANGED doneOld
      \/ Crash
      \/ \E j \in JobID : ResultAges(j)
  <2>1. CASE QueueSteps \/ Uploads \/ Conversions \/ UNCHANGED serviceVars
    BY <2>1 DEF QueueSteps, Uploads, UploadMkdir, UploadWrite, UploadRefused, UploadSubmit,
                Conversions, ConvertBegins, ConvertEnds, serviceVars, dirVars,
                RemoveAll, RemoveAllFails
  <2>2. CASE Downloads
    BY <2>2 DEF Downloads, DownloadFinds, DownloadOpens, DownloadMarks, DownloadStreams,
                ZipCopies, ZipStops, ZipEnds, ReapRemoves, ReapDeletes, dirVars,
                RemoveAll, RemoveAllFails
  <2>3. CASE Cleaning
    BY <2>3 DEF Cleaning, SweepBegins, ExpiredRemoved, ExpiredNotRemoved, ExpiredDeleted,
                OrphanChecked, OrphansBegin, OrphansSkipped, OrphanRemoved,
                OrphanNotRemoved, OrphanDone, SweepEnds, dirVars, RemoveAll, RemoveAllFails
  <2>4. CASE Ageing
    BY <2>4 DEF Ageing, DirAges
  <2>. QED BY <2>1, <2>2, <2>3, <2>4 DEF ServiceNext
<1>. QED BY <1>1, <1>2, <1>3 DEF Crash, ResultAges

(* A reaping goroutine is started, and a result sent and counted, by the   *)
(* owner of the job, who is done with it.                                  *)
Releases(d, j) ==
  /\ At(d, "owner")
  /\ JobOf(d) = j
  /\ request' = [request EXCEPT ![d] = NoRequest]
  /\ marked' = marked

LEMMA CountStep ==
  ASSUME ServiceTypeOK, [ServiceNext]_serviceVars, NEW j \in JobID
  PROVE  \/ /\ delivered'[j] = delivered[j]
            /\ counted'[j] = counted[j]
            /\ reap'[j] # "none" => reap[j] # "none"
         \/ \E d \in Downloader :
              /\ Releases(d, j)
              /\ delivered'[j] \in {delivered[j], delivered[j] + 1}
              /\ counted'[j] \in {counted[j], counted[j] + 1}
<1>1. CASE Crash
  BY <1>1 DEF Crash
<1>2. CASE UNCHANGED requestVars
  BY <1>2 DEF requestVars
<1>3. ASSUME NEW d \in Downloader, NEW whole \in BOOLEAN, Complete(d, whole), At(d, "owner"),
             UNCHANGED marked
      PROVE  \/ /\ delivered'[j] = delivered[j]
                /\ counted'[j] = counted[j]
                /\ reap'[j] # "none" => reap[j] # "none"
             \/ /\ Releases(d, j)
                /\ delivered'[j] \in {delivered[j], delivered[j] + 1}
                /\ counted'[j] \in {counted[j], counted[j] + 1}
  <2>1. CASE JobOf(d) = j
    BY <1>3, <2>1 DEF Complete, End, Releases, ServiceTypeOK
  <2>2. CASE JobOf(d) # j
    BY <1>3, <2>2 DEF Complete, ServiceTypeOK
  <2>. QED BY <2>1, <2>2
<1>4. ASSUME NEW d \in Downloader, ZipEnds(d)
      PROVE  \E whole \in BOOLEAN : Complete(d, whole) /\ At(d, "owner") /\ UNCHANGED marked
  <2>1. (~request[d].broken) \in BOOLEAN
    OBVIOUS
  <2>. QED BY <1>4, <2>1 DEF ZipEnds
<1>5. ASSUME NEW d \in Downloader, DownloadStreams(d)
      PROVE  \/ UNCHANGED <<delivered, counted, reap>>
             \/ \E whole \in BOOLEAN : Complete(d, whole) /\ At(d, "owner") /\ UNCHANGED marked
  BY <1>5 DEF DownloadStreams
<1>6. ASSUME NEW d \in Downloader,
             \/ \E k \in JobID : DownloadFinds(d, k)
             \/ DownloadOpens(d) \/ DownloadMarks(d) \/ ZipCopies(d) \/ ZipStops(d)
      PROVE  UNCHANGED <<delivered, counted, reap>>
  BY <1>6 DEF DownloadFinds, DownloadOpens, DownloadMarks, ZipCopies, ZipStops
<1>7. ASSUME NEW k \in JobID, ReapRemoves(k) \/ ReapDeletes(k)
      PROVE  UNCHANGED <<delivered, counted>> /\ (reap'[j] # "none" => reap[j] # "none")
  BY <1>7 DEF ReapRemoves, ReapDeletes, ServiceTypeOK
<1>8. CASE Downloads
  BY <1>3, <1>4, <1>5, <1>6, <1>7, <1>8 DEF Downloads
<1>. QED BY <1>1, <1>2, <1>8, RequestFrame

-----------------------------------------------------------------------------
(* Every step preserves the invariant                                      *)

LEMMA UploadsFreshKept ==
  ASSUME ServiceInv, [ServiceNext]_serviceVars
  PROVE  UploadsFresh'
<1> SUFFICES ASSUME NEW j \in JobID, upload'[j] # "over"
             PROVE  j \notin issued' /\ j \notin dirOld'
  BY DEF UploadsFresh
<1>0. QueueInv /\ ServiceTypeOK /\ UploadsFresh
  BY DEF ServiceInv
<1>1. j \notin issued /\ j \notin dirOld /\ j \notin dirOld' /\ ~UploadSubmit(j)
  BY <1>0, UploadStep DEF UploadsFresh
<1>2. ASSUME j \in issued' PROVE FALSE
  <2>1. jobs[j] = "absent"
    BY <1>0, <1>1 DEF QueueInv, Placement
  <2>2. issued' # issued
    BY <1>1, <1>2
  <2>3. CASE ConvertBegins
    BY <2>2, <2>3 DEF ConvertBegins, WorkerPublish
  <2>4. ASSUME NEW result \in Result, ConvertEnds(result) PROVE FALSE
    BY <2>2, <2>4 DEF ConvertEnds, WorkerStore
  <2>. QED BY <1>0, <1>1, <1>2, <2>2, <2>3, <2>4, JobsStep
<1>. QED BY <1>1, <1>2

LEMMA ClaimsKept ==
  ASSUME ServiceInv, [ServiceNext]_serviceVars
  PROVE  ClaimsFinished'
<1>0. QueueInv /\ ServiceTypeOK /\ ClaimsFinished
  BY DEF ServiceInv
<1>1. ASSUME NEW j \in marked' \cup doneOld' PROVE Finished(j)'
  <2>1. j \in JobID
    BY <1>0, ServiceTypesKept DEF ServiceTypeOK
  <2>2. Finished(j)
    <3>1. CASE j \in marked \cup doneOld
      BY <1>0, <3>1 DEF ClaimsFinished
    <3>2. ASSUME NEW d \in Downloader, Requested(d), JobOf(d) = j PROVE Finished(j)
      BY <1>0, <3>2 DEF ClaimsFinished
    <3>3. CASE jobs[j] \in Terminal
      BY <1>0, <2>1, <3>3 DEF QueueInv, Placement, Finished, Terminal
    <3>. QED BY <1>0, <1>1, <3>1, <3>2, <3>3, MarkStep
  <2>. QED BY <1>0, <2>1, <2>2, FinishedStable
<1>2. ASSUME NEW d \in Downloader, Requested(d)'
      PROVE  /\ Finished(JobOf(d))'
             /\ jobs'[JobOf(d)'] = "done" \/ JobOf(d)' \in marked' \cup doneOld'
             /\ At(d, "owner")' => JobOf(d)' \in marked'
  <2>1. ASSUME NEW j \in JobID, DownloadFinds(d, j), JobOf(d)' = j, ~At(d, "owner")'
        PROVE  /\ Finished(JobOf(d))'
               /\ jobs'[JobOf(d)'] = "done"
               /\ ~At(d, "owner")'
    <3>1. jobs' = jobs /\ jobs[j] = "done"
      BY <2>1 DEF DownloadFinds, queueVars
    <3>2. Finished(j)
      BY <1>0, <3>1 DEF QueueInv, Placement, Finished
    <3>3. Finished(j)'
      BY <1>0, <3>2, FinishedStable
    <3>. QED BY <2>1, <3>1, <3>3 DEF Finished
  <2>2. ASSUME Requested(d), JobOf(d)' = JobOf(d), ~Crash,
               At(d, "owner")' => At(d, "owner") \/ Claims(d)
        PROVE  /\ Finished(JobOf(d))'
               /\ jobs'[JobOf(d)'] = "done" \/ JobOf(d)' \in marked' \cup doneOld'
               /\ At(d, "owner")' => JobOf(d)' \in marked'
    <3> DEFINE j == JobOf(d)
    <3>1. j \in JobID /\ j' = j
      BY <1>0, <2>2 DEF ServiceTypeOK, Requested, Request, JobOf
    <3>2. Finished(j) /\ (jobs[j] = "done" \/ j \in marked \cup doneOld)
      BY <1>0, <2>2 DEF ClaimsFinished
    <3>3. At(d, "owner") => j \in marked
      BY <1>0, <2>2 DEF ClaimsFinished
    <3>4. marked \subseteq marked' /\ doneOld \subseteq doneOld'
      BY <1>0, <2>2, MarkStep
    <3>5. Claims(d) => j \in marked'
      BY DEF Claims
    <3> HIDE DEF j
    <3>6. ASSUME jobs[j] = "done", jobs'[j] # "done" PROVE j \in marked' \cup doneOld'
      <4>1. ReapDeletes(j) \/ (ExpiredDeleted /\ target = j) \/ UploadSubmit(j)
        BY <1>0, <2>2, <3>1, <3>6, JobsStep
      <4>2. CASE ReapDeletes(j)
        BY <1>0, <3>1, <3>4, <4>2 DEF ReapDeletes, ClaimsFinished
      <4>3. CASE ExpiredDeleted /\ target = j
        BY <3>4, <4>3 DEF ExpiredDeleted, ServiceInv, CleanerInv
      <4>4. CASE UploadSubmit(j)
        BY <3>2, <4>4 DEF UploadSubmit, SubmitAdmit, Finished
      <4>. QED BY <4>1, <4>2, <4>3, <4>4
    <3>7. Finished(j)'
      BY <1>0, <3>1, <3>2, FinishedStable
    <3>8. Finished(JobOf(d))'
      BY <2>2, <3>1, <3>7 DEF Finished, j
    <3>. QED BY <2>2, <3>1, <3>2, <3>3, <3>4, <3>5, <3>6, <3>8 DEF j
  <2>. QED BY <1>0, <1>2, <2>1, <2>2, RequestStep
<1>3. ASSUME NEW j \in JobID, reap'[j] # "none" PROVE j \in marked'
  <2>1. CASE Crash
    BY <1>3, <2>1 DEF Crash
  <2>2. ASSUME ~Crash, reap[j] # "none" PROVE j \in marked'
    BY <1>0, <2>2, MarkStep DEF ClaimsFinished
  <2>3. ASSUME NEW d \in Downloader, Releases(d, j) PROVE j \in marked'
    BY <1>0, <2>3 DEF Releases, ClaimsFinished, Requested, At
  <2>. QED BY <1>0, <1>3, <2>1, <2>2, <2>3, CountStep
<1>. QED BY <1>1, <1>2, <1>3 DEF ClaimsFinished

LEMMA CleanerKept ==
  ASSUME ServiceInv, [ServiceNext]_serviceVars
  PROVE  CleanerInv'
<1>0. QueueInv /\ ServiceTypeOK /\ CleanerInv /\ UploadsFresh
  BY DEF ServiceInv
<1>1. CASE Crash
  BY <1>1 DEF Crash, CleanerInv
<1>2. ASSUME ~Crash PROVE CleanerInv'
  <2>1. doneOld \subseteq doneOld'
    BY <1>0, <1>2, MarkStep
  <2>2. ASSUME NEW j \in JobID, upload[j] = "over", jobs[j] = "absent"
        PROVE  upload'[j] = "over" /\ jobs'[j] = "absent"
    <3>1. upload'[j] = "over"
      BY <1>0, <2>2, UploadStep
    <3>2. ~UploadSubmit(j)
      BY <2>2 DEF UploadSubmit
    <3>. QED BY <1>0, <2>2, <3>1, <3>2, JobsStep
  <2>3. CASE UNCHANGED cleanerVars
    BY <1>0, <2>1, <2>2, <2>3 DEF CleanerInv, cleanerVars
  <2>4. CASE SweepBegins
    BY <2>1, <2>4 DEF SweepBegins, CleanerInv, Expired
  <2>5. ASSUME NEW j \in JobID, ExpiredRemoved(j) \/ ExpiredNotRemoved(j) PROVE CleanerInv'
    BY <1>0, <2>1, <2>5 DEF ExpiredRemoved, ExpiredNotRemoved, NextExpired, CleanerInv
  <2>6. CASE ExpiredDeleted
    BY <1>0, <2>1, <2>6 DEF ExpiredDeleted, CleanerInv
  <2>7. ASSUME NEW j \in JobID, OrphanChecked(j) PROVE CleanerInv'
    <3>1. CASE Orphan(j)
      <4>1. upload[j] = "over" /\ jobs[j] = "absent"
        BY <1>0, <3>1 DEF Orphan, UploadsFresh
      <4>. QED BY <2>2, <2>7, <3>1, <4>1 DEF OrphanChecked, CleanerInv
    <3>2. CASE ~Orphan(j)
      BY <2>7, <3>2 DEF OrphanChecked, CleanerInv
    <3>. QED BY <3>1, <3>2
  <2>8. CASE OrphansBegin \/ OrphansSkipped \/ OrphanRemoved \/ OrphanNotRemoved \/ SweepEnds
    BY <2>8 DEF OrphansBegin, OrphansSkipped, OrphanRemoved, OrphanNotRemoved, OrphanDone,
                SweepEnds, CleanerInv
  <2>9. Cleaning \/ UNCHANGED cleanerVars
    BY <1>2 DEF ServiceNext, QueueSteps, Uploads, UploadMkdir, UploadWrite, UploadRefused,
                UploadSubmit, Conversions, ConvertBegins, ConvertEnds, Downloads,
                DownloadFinds, DownloadOpens, DownloadMarks, DownloadStreams, ZipCopies,
                ZipStops, ZipEnds, ReapRemoves, ReapDeletes, Ageing, DirAges, ResultAges,
                serviceVars
  <2>. QED BY <2>3, <2>4, <2>5, <2>6, <2>7, <2>8, <2>9 DEF Cleaning
<1>. QED BY <1>1, <1>2

(* The cleaner and the reaping goroutines remove what has finished, or what*)
(* is neither in the table nor about to be.                                *)
LEMMA RemovedIsOver ==
  ASSUME ServiceInv, NEW j \in JobID,
         \/ ReapRemoves(j) \/ ExpiredRemoved(j) \/ ExpiredNotRemoved(j)
         \/ OrphanDone /\ target = j /\ UNCHANGED <<jobs, upload>>
  PROVE  /\ upload'[j] = "over"
         /\ jobs' = jobs
         /\ jobs[j] \notin {"queued", "processing"}
         /\ jobs[j] = "absent" \/ j \in marked \cup doneOld
<1>0. UploadsFresh /\ ClaimsFinished /\ CleanerInv
  BY DEF ServiceInv
<1>1. CASE OrphanDone /\ target = j /\ UNCHANGED <<jobs, upload>>
  BY <1>0, <1>1 DEF OrphanDone, CleanerInv
<1>2. CASE ReapRemoves(j) \/ ExpiredRemoved(j) \/ ExpiredNotRemoved(j)
  <2>1. j \in marked \cup doneOld
    BY <1>0, <1>2 DEF ReapRemoves, ExpiredRemoved, ExpiredNotRemoved, NextExpired,
                      ClaimsFinished, CleanerInv
  <2>2. Finished(j)
    BY <1>0, <2>1 DEF ClaimsFinished
  <2>3. upload[j] = "over"
    BY <1>0, <2>2 DEF UploadsFresh, Finished
  <2>4. UNCHANGED <<jobs, upload>>
    BY <1>2 DEF ReapRemoves, ExpiredRemoved, ExpiredNotRemoved, queueVars
  <2>. QED BY <2>1, <2>2, <2>3, <2>4 DEF Finished
<1>. QED BY <1>1, <1>2

LEMMA LiveKept ==
  ASSUME ServiceInv, [ServiceNext]_serviceVars
  PROVE  LiveJobKeepsInput'
<1> SUFFICES ASSUME NEW j \in JobID,
                    upload'[j] \in {"made", "written"} \/ jobs'[j] \in {"queued", "processing"}
             PROVE  dir'[j] = "input"
  BY DEF LiveJobKeepsInput
<1>0. QueueInv /\ TypeOK /\ ServiceTypeOK /\ UploadsFresh /\ LiveJobKeepsInput
  BY DEF ServiceInv, QueueInv
<1>1. CASE UploadMkdir(j)
  <2>1. jobs'[j] = "absent"
    BY <1>0, <1>1 DEF UploadMkdir, UploadsFresh, QueueInv, Placement, queueVars
  <2>. QED BY <1>0, <1>1, <2>1 DEF UploadMkdir, ServiceTypeOK
<1>2. ASSUME ~UploadMkdir(j)
      PROVE  upload[j] \in {"made", "written"} \/ jobs[j] \in {"queued", "processing"}
  <2>1. ASSUME upload'[j] \in {"made", "written"}, upload[j] \notin {"made", "written"} PROVE FALSE
    <3>1. CASE upload'[j] = upload[j]
      BY <2>1, <3>1
    <3>. QED BY <1>0, <1>2, <2>1, <3>1, UploadStep DEF UploadSubmit, UploadRefused, UploadWrite
  <2>2. ASSUME jobs'[j] \in {"queued", "processing"}, jobs[j] \notin {"queued", "processing"}
        PROVE  upload[j] = "written"
    <3>1. \A result \in Result : FinalStatus(result) \notin {"queued", "processing"}
      BY DEF FinalStatus
    <3>2. UploadSubmit(j)
      BY <1>0, <2>2, <3>1, JobsStep
    <3>. QED BY <3>2 DEF UploadSubmit
  <2>. QED BY <2>1, <2>2
<1>3. ASSUME ~UploadMkdir(j), dir'[j] # dir[j] PROVE FALSE
  <2>1. CASE \E result \in Result : ConvertEnds(result) /\ current = j
    <3>1. PICK result \in Result : ConvertEnds(result) /\ current = j
      BY <2>1
    <3>2. jobs'[j] \in Terminal
      BY <1>0, <3>1 DEF ConvertEnds, WorkerStore, FinalStatus, Terminal, TypeOK
    <3>3. j \in issued
      BY <1>0, <3>1 DEF ConvertEnds, WorkerStore, QueueInv, Placement, WorkerBusy
    <3>4. upload'[j] = "over"
      BY <1>0, <3>1, <3>3 DEF ConvertEnds, UploadsFresh
    <3>. QED BY <3>2, <3>4 DEF Terminal
  <2>2. CASE UploadWrite(j) \/ UploadRefused(j)
    <3>1. upload[j] # "over" /\ jobs' = jobs
      BY <2>2 DEF UploadWrite, UploadRefused, queueVars
    <3>2. jobs'[j] = "absent"
      BY <1>0, <3>1 DEF UploadsFresh, QueueInv, Placement
    <3>3. upload'[j] = "over"
      BY <1>0, <1>3, <2>2 DEF UploadWrite, UploadRefused, ServiceTypeOK, dirVars
    <3>. QED BY <3>2, <3>3
  <2>. QED BY <1>0, <1>3, <2>1, <2>2, DirStep, RemovedIsOver
<1>. QED BY <1>0, <1>1, <1>2, <1>3 DEF LiveJobKeepsInput

LEMMA ResultKeptKept ==
  ASSUME ServiceInv, [ServiceNext]_serviceVars
  PROVE  ResultKept'
<1> SUFFICES ASSUME NEW j \in JobID, j \notin marked' \cup doneOld', jobs'[j] = "done"
             PROVE  dir'[j] = "output"
  BY DEF ResultKept
<1>0. QueueInv /\ TypeOK /\ ServiceTypeOK /\ UploadsFresh /\ ResultKept
  BY DEF ServiceInv, QueueInv
<1>1. ASSUME NEW result \in Result, ConvertEnds(result), current = j
      PROVE  dir'[j] = "output"
  <2>1. jobs'[j] = FinalStatus(result)
    BY <1>0, <1>1 DEF ConvertEnds, WorkerStore, TypeOK
  <2>2. result # "failed"
    BY <2>1 DEF FinalStatus
  <2>. QED BY <1>0, <1>1, <2>2 DEF ConvertEnds, ServiceTypeOK
<1>2. ASSUME ~\E result \in Result : ConvertEnds(result) /\ current = j
      PROVE  dir'[j] = "output"
  <2>1. jobs[j] = "done" /\ ~Crash
    BY <1>0, <1>2, JobsStep DEF Crash
  <2>2. j \notin marked \cup doneOld
    BY <1>0, <2>1, MarkStep
  <2>3. dir[j] = "output"
    BY <1>0, <2>1, <2>2 DEF ResultKept
  <2>4. upload[j] = "over"
    BY <1>0, <2>1 DEF UploadsFresh, QueueInv, Placement
  <2>5. ~(UploadMkdir(j) \/ UploadWrite(j) \/ UploadRefused(j))
    BY <2>4 DEF UploadMkdir, UploadWrite, UploadRefused
  <2>. QED BY <1>0, <1>2, <2>1, <2>2, <2>3, <2>5, DirStep, RemovedIsOver
<1>. QED BY <1>1, <1>2

LEMMA OnceKept ==
  ASSUME ServiceInv, [ServiceNext]_serviceVars
  PROVE  OnceInv'
<1>0. QueueInv /\ ServiceTypeOK /\ ClaimsFinished /\ OnceInv
  BY DEF ServiceInv
<1>1. ASSUME NEW d \in Downloader, NEW j \in JobID, Releases(d, j)
      PROVE  ~Handed(j) /\ j \in marked /\ j \in marked' /\ Finished(j) /\ ~At(d, "owner")'
  <2>1. ~Handed(j)
    BY <1>0, <1>1 DEF OnceInv, Releases
  <2>2. j \in marked
    BY <1>0, <1>1 DEF ClaimsFinished, Releases, Requested, At
  <2>3. ~At(d, "owner")'
    BY <1>0, <1>1 DEF Releases, At, ServiceTypeOK
  <2>. QED BY <1>0, <1>1, <2>1, <2>2, <2>3 DEF Releases, ClaimsFinished
<1>2. HandedOutOnce'
  <2> SUFFICES ASSUME NEW j \in JobID PROVE delivered'[j] <= 1 /\ counted'[j] <= 1
    BY DEF HandedOutOnce
  <2>1. CASE delivered'[j] = delivered[j] /\ counted'[j] = counted[j]
    BY <1>0, <2>1 DEF OnceInv, HandedOutOnce
  <2>2. ASSUME NEW d \in Downloader, Releases(d, j),
               delivered'[j] \in {delivered[j], delivered[j] + 1},
               counted'[j] \in {counted[j], counted[j] + 1}
        PROVE  delivered'[j] <= 1 /\ counted'[j] <= 1
    <3>1. delivered[j] = 0 /\ counted[j] = 0
      BY <1>1, <2>2 DEF Handed
    <3>. QED BY <2>2, <3>1
  <2>. QED BY <1>0, <2>1, <2>2, CountStep
<1>3. ASSUME NEW e \in Downloader, At(e, "owner")'
      PROVE  /\ JobOf(e)' = JobOf(e)
             /\ Requested(e)
             /\ At(e, "owner") \/ Claims(e)
  BY <1>0, <1>3, RequestStep DEF Requested, At
<1>4. ASSUME NEW j \in JobID, Handed(j)
      PROVE  /\ Finished(j)'
             /\ \A e \in Downloader : ~(At(e, "owner")' /\ JobOf(e)' = j)
             /\ \/ j \in marked'
                \/ /\ jobs'[j] = "absent"
                   /\ \A e \in Downloader : ~(Requested(e)' /\ JobOf(e)' = j)
  <2>1. /\ Finished(j)
        /\ \A e \in Downloader : ~(At(e, "owner") /\ JobOf(e) = j)
        /\ j \in marked \/ /\ jobs[j] = "absent"
                           /\ \A e \in Downloader : ~(Requested(e) /\ JobOf(e) = j)
    BY <1>0, <1>4 DEF OnceInv
  <2>2. Finished(j)' /\ (jobs[j] = "absent" => jobs'[j] = "absent")
    BY <1>0, <2>1, FinishedStable
  <2>3. ASSUME NEW e \in Downloader, At(e, "owner")', JobOf(e)' = j PROVE FALSE
    BY <1>3, <2>1, <2>3 DEF Claims
  <2>4. CASE j \in marked
    <3>1. ASSUME Crash
          PROVE  jobs'[j] = "absent" /\ \A e \in Downloader : ~Requested(e)'
      BY <3>1 DEF Crash, Requested
    <3>2. ASSUME ~Crash PROVE j \in marked'
      BY <1>0, <2>4, <3>2, MarkStep
    <3>. QED BY <2>2, <2>3, <3>1, <3>2
  <2>5. ASSUME jobs[j] = "absent", \A e \in Downloader : ~(Requested(e) /\ JobOf(e) = j),
               NEW e \in Downloader, Requested(e)', JobOf(e)' = j
        PROVE  FALSE
    <3>1. ~DownloadFinds(e, j)
      BY <2>5 DEF DownloadFinds
    <3>. QED BY <1>0, <2>5, <3>1, RequestStep
  <2>. QED BY <2>1, <2>2, <2>3, <2>4, <2>5
<1>5. ASSUME NEW j \in JobID, Handed(j)', ~Handed(j)
      PROVE  /\ Finished(j)'
             /\ \A e \in Downloader : ~(At(e, "owner")' /\ JobOf(e)' = j)
             /\ j \in marked'
  <2>1. PICK d \in Downloader : Releases(d, j)
    BY <1>0, <1>5, CountStep DEF Handed
  <2>2. Finished(j)' /\ j \in marked' /\ j \in marked
    BY <1>0, <1>1, <2>1, FinishedStable
  <2>3. ASSUME NEW e \in Downloader, At(e, "owner")', JobOf(e)' = j PROVE FALSE
    <3>1. At(e, "owner") /\ JobOf(e) = j
      BY <1>3, <2>2, <2>3 DEF Claims
    <3>2. e = d
      BY <1>0, <2>1, <3>1 DEF OnceInv, Releases
    <3>. QED BY <1>1, <2>1, <2>3, <3>2
  <2>. QED BY <2>2, <2>3
<1>6. ASSUME NEW d \in Downloader, NEW e \in Downloader,
             At(d, "owner")', At(e, "owner")', JobOf(d)' = JobOf(e)'
      PROVE  d = e
  <2>1. /\ JobOf(d) = JobOf(e)
        /\ At(d, "owner") \/ Claims(d)
        /\ At(e, "owner") \/ Claims(e)
    BY <1>3, <1>6
  <2>2. \A f \in Downloader : At(f, "owner") => JobOf(f) \in marked
    BY <1>0 DEF ClaimsFinished, Requested, At
  <2>3. CASE At(d, "owner") /\ At(e, "owner")
    BY <1>0, <2>1, <2>3 DEF OnceInv
  <2>4. ASSUME Claims(d), Claims(e), d # e PROVE FALSE
    BY <1>6, <2>4 DEF Claims, At
  <2>. QED BY <2>1, <2>2, <2>3, <2>4 DEF Claims
<1>7. ASSUME NEW j \in JobID, Handed(j)'
      PROVE  /\ Finished(j)'
             /\ \A e \in Downloader : ~(At(e, "owner")' /\ JobOf(e)' = j)
             /\ \/ j \in marked'
                \/ /\ jobs'[j] = "absent"
                   /\ \A e \in Downloader : ~(Requested(e)' /\ JobOf(e)' = j)
  BY <1>4, <1>5, <1>7
<1>. QED BY <1>2, <1>6, <1>7 DEF OnceInv

LEMMA ServiceInvStep == ServiceInv /\ [ServiceNext]_serviceVars => ServiceInv'
<1> SUFFICES ASSUME ServiceInv, [ServiceNext]_serviceVars PROVE ServiceInv'
  OBVIOUS
<1>1. QueueInv /\ ServiceTypeOK
  BY DEF ServiceInv
<1>. QED
  BY <1>1, QueueInvKept, ServiceTypesKept, UploadsFreshKept, ClaimsKept, CleanerKept,
     LiveKept, ResultKeptKept, OnceKept
     DEF ServiceInv

LEMMA ServiceInvariant == ServiceSpec => []ServiceInv
BY ServiceInvInit, ServiceInvStep, PTL DEF ServiceSpec

-----------------------------------------------------------------------------
(* The theorems                                                            *)

(* The types, with the progress of a zip bounded by the manifest.          *)
THEOREM ServiceTypeCorrect == ServiceSpec => []ServiceTypeOK
<1>1. ServiceInv => ServiceTypeOK
  BY DEF ServiceInv
<1>. QED BY <1>1, ServiceInvariant, PTL

(* The result of a conversion stays on the disk until it is claimed or     *)
(* CleanupMaxAge old, for a new request and for one that has found it      *)
(* (convert.go:1190, cleaner.go).                                          *)
THEOREM DownloadableCorrect == ServiceSpec => []DoneJobDownloadable
<1>1. ServiceInv => DoneJobDownloadable
  <2> SUFFICES ASSUME ServiceInv, NEW j \in JobID, j \notin marked \cup doneOld,
                      jobs[j] = "done" \/ \E d \in Downloader : Requested(d) /\ JobOf(d) = j
               PROVE  dir[j] = "output"
    BY DEF DoneJobDownloadable, Requested
  <2>1. jobs[j] = "done"
    BY DEF ServiceInv, ClaimsFinished
  <2>. QED BY <2>1 DEF ServiceInv, ResultKept
<1>. QED BY <1>1, ServiceInvariant, PTL

(* Neither a pass of the cleaner nor the goroutine a download leaves behind*)
(* removes the input of an upload under way or of an unfinished job        *)
(* (cleaner.go, convert.go).                                               *)
THEOREM KeepsInputCorrect == ServiceSpec => []LiveJobKeepsInput
<1>1. ServiceInv => LiveJobKeepsInput
  BY DEF ServiceInv
<1>. QED BY <1>1, ServiceInvariant, PTL

(* A result is sent whole at most once and counted at most once, however   *)
(* many downloads race for it and however often the process dies.          *)
THEOREM HandedOutCorrect == ServiceSpec => []HandedOutOnce
<1>1. ServiceInv => HandedOutOnce
  BY DEF ServiceInv, OnceInv
<1>. QED BY <1>1, ServiceInvariant, PTL
=============================================================================
